---------------------------- MODULE Spec2Model ----------------------------
(***************************************************************************)
(* Model of gloweygraph's render2 renderer.                                *)
(*                                                                         *)
(*   src/src/render2.rs      the GLSL stages (vertex, node geometry, edge  *)
(*                           geometry, fragment) and Renderer2             *)
(*   src/src/render2/mod.rs  Renderer: four programs, eight render calls   *)
(*                                                                         *)
(* Shader floats are modelled as exact rationals <<num, den>> in lowest    *)
(* terms, extended with the infinities and NaN.  An operation whose result *)
(* GLSL 1.50 leaves unspecified (0/0, normalize of the zero vector, pow    *)
(* outside its domain) yields a value chosen by the caller from            *)
(* Unspecified.  Rounding of f32 is not modelled.                          *)
(***************************************************************************)
EXTENDS Integers, Sequences, FiniteSets, TLC

VARIABLES
    rpc,       \* "start", "built" or "panicked": where the host program is
    renderer,  \* <<>> or <<r>>: the Renderer / Renderer2 value, once new() returned
    calls,     \* the render calls that returned: [name, batch]
    draws,     \* the draws issued on the target surface
    stage,     \* the pipeline stage the Renderer2 draw is at
    vsout,     \* the vertex stage's outputs, one per uploaded vertex
    prims,     \* the geometry stage's output: strips of three vertices
    frag,      \* <<>> or <<f>>: the fragment being shaded
    fsout      \* <<>> or <<o>>: the fragment stage's result

vars == <<rpc, renderer, calls, draws, stage, vsout, prims, frag, fsout>>

(***************************************************************************)
(* Bounds of the model.                                                    *)
(***************************************************************************)
\* falloff_radius is drawn from 0..MaxRadius
MaxRadius == 1
\* number of render calls made on one Renderer
MaxCalls == 2

(***************************************************************************)
(* Scalars: <<n, d>> with d > 0 in lowest terms, <<1, 0>> and <<-1, 0>>    *)
(* for the two infinities, <<0, 0>> for NaN.                               *)
(***************************************************************************)
Abs(n) == IF n < 0 THEN -n ELSE n
Sign(n) == IF n > 0 THEN 1 ELSE IF n < 0 THEN -1 ELSE 0
Min(a, b) == IF a < b THEN a ELSE b

RECURSIVE GCD(_, _)
GCD(a, b) == IF b = 0 THEN a ELSE GCD(b, a % b)

NaN == <<0, 0>>
PosInf == <<1, 0>>
IsNaN(x) == x = NaN
IsFinite(x) == x[2] > 0
IsInf(x) == x[2] = 0 /\ x[1] # 0

Norm(n, d) ==
    IF d = 0 THEN <<Sign(n), 0>>
    ELSE LET g == GCD(Abs(n), Abs(d))
             s == IF d < 0 THEN -1 ELSE 1
         IN  <<(s * n) \div g, (s * d) \div g>>

R(n) == <<n, 1>>
Zero == R(0)
One == R(1)
Two == R(2)

\* GLSL 1.50 leaves the result of a division by zero unspecified.  A nonzero
\* x divided by zero is taken to be the infinity of x's sign, as IEEE 754
\* hardware yields; 0/0, and pow outside its domain, yield one of these
\* values (NaN under IEEE 754, 0 where NaN is flushed)
Unspecified == {NaN, Zero}

\* products and sums cancel common factors first, so intermediate values stay small
Add(x, y) ==
    IF IsNaN(x) \/ IsNaN(y) THEN NaN
    ELSE IF IsFinite(x) /\ IsFinite(y)
    THEN LET g == GCD(x[2], y[2])
         IN  Norm(x[1] * (y[2] \div g) + y[1] * (x[2] \div g), (x[2] \div g) * y[2])
    ELSE IF IsInf(x) /\ IsInf(y) THEN (IF x = y THEN x ELSE NaN)
    ELSE IF IsInf(x) THEN x ELSE y
Neg(x) == <<-x[1], x[2]>>
Sub(x, y) == Add(x, Neg(y))
Mul(x, y) ==
    IF IsNaN(x) \/ IsNaN(y) THEN NaN
    ELSE IF IsFinite(x) /\ IsFinite(y)
    THEN LET g1 == GCD(Abs(x[1]), y[2])
             g2 == GCD(Abs(y[1]), x[2])
         IN  Norm((x[1] \div g1) * (y[1] \div g2), (x[2] \div g2) * (y[2] \div g1))
    ELSE <<Sign(x[1]) * Sign(y[1]), 0>>
\* x / y; u is the value of 0/0
Div(x, y, u) ==
    IF IsNaN(x) \/ IsNaN(y) THEN NaN
    ELSE IF y = Zero THEN (IF x = Zero THEN u ELSE <<Sign(x[1]), 0>>)
    ELSE IF IsInf(y) THEN (IF IsInf(x) THEN NaN ELSE Zero)
    ELSE Mul(x, Norm(y[2], y[1]))
\* comparisons with NaN are false
Lt(x, y) ==
    /\ ~IsNaN(x) /\ ~IsNaN(y)
    /\ IF IsInf(x) /\ IsInf(y) THEN x[1] < y[1]
       ELSE LET g == GCD(x[2], y[2])
            IN  x[1] * (y[2] \div g) < y[1] * (x[2] \div g)
Le(x, y) == ~IsNaN(x) /\ ~IsNaN(y) /\ (x = y \/ Lt(x, y))

\* GLSL max(x, y): "returns y if x < y, otherwise it returns x"
Max(x, y) == IF Lt(x, y) THEN y ELSE x

\* b^n, saturating just above 2^15 so that no product leaves the integers
RECURSIVE IPow(_, _)
IPow(b, n) == IF n = 0 THEN 1
              ELSE LET p == IPow(b, n - 1)
                   IN  IF p > 32768 \/ b > 32768 THEN 32769 ELSE b * p

\* exact integer k-th roots
HasIRoot(a, k) == k = 1 \/ \E r \in 0..Min(a, 181) : IPow(r, k) = a
IRoot(a, k) == IF k = 1 THEN a ELSE CHOOSE r \in 0..Min(a, 181) : IPow(r, k) = a

\* x^(1/k) is a value of the model
HasRoot(x, k) ==
    \/ ~IsFinite(x)
    \/ x[1] >= 0 /\ HasIRoot(x[1], k) /\ HasIRoot(x[2], k)
Root(x, k) == IF IsFinite(x) THEN <<IRoot(x[1], k), IRoot(x[2], k)>> ELSE x

HasSqrt(x) == HasRoot(x, 2)
\* GLSL sqrt(x): "results are undefined if x < 0"; never called so here
Sqrt(x) == Root(x, 2)

\* GLSL pow(x, y): "results are undefined if x < 0, or if x = 0 and y <= 0";
\* u is the value produced there
Pow(x, y, u) ==
    IF IsNaN(x) \/ IsNaN(y) THEN NaN
    ELSE IF Lt(x, Zero) \/ (x = Zero /\ Le(y, Zero)) THEN u
    ELSE IF y = Zero THEN One
    ELSE IF x = Zero THEN Zero
    ELSE IF IsInf(x) THEN (IF Lt(Zero, y) THEN PosInf ELSE Zero)
    ELSE IF IsInf(y) THEN (IF Lt(One, x) = Lt(Zero, y) THEN PosInf ELSE Zero)
    ELSE LET r == Root(x, y[2])
             n == Abs(y[1])
             v == <<IPow(r[1], n), IPow(r[2], n)>>
         IN  IF y[1] < 0 THEN <<v[2], v[1]>> ELSE v
\* pow(x, y) is a value of the model
HasPow(x, y) ==
    \/ ~IsFinite(x) \/ ~IsFinite(y) \/ Le(x, Zero)
    \/ /\ HasRoot(x, y[2])
       /\ LET r == Root(x, y[2])
          IN  IPow(r[1], Abs(y[1])) <= 32768 /\ IPow(r[2], Abs(y[1])) <= 32768

(***************************************************************************)
(* Vectors.                                                                *)
(***************************************************************************)
\* vec2 and vec4 are tuples of scalars
VAdd(a, b) == <<Add(a[1], b[1]), Add(a[2], b[2])>>
VSub(a, b) == <<Sub(a[1], b[1]), Sub(a[2], b[2])>>
VScale(k, a) == <<Mul(k, a[1]), Mul(k, a[2])>>
V4Add(a, b) == <<Add(a[1], b[1]), Add(a[2], b[2]), Add(a[3], b[3]), Add(a[4], b[4])>>
V4Scale(k, a) == <<Mul(k, a[1]), Mul(k, a[2]), Mul(k, a[3]), Mul(k, a[4])>>
Dot(a, b) == Add(Mul(a[1], b[1]), Mul(a[2], b[2]))
Cross(a, b) == Sub(Mul(a[1], b[2]), Mul(a[2], b[1]))
VecIsNaN(a) == \E i \in 1..Len(a) : IsNaN(a[i])
Vec2(x, y) == <<R(x), R(y)>>

\* GLSL length(v) = sqrt(dot(v, v))
HasLength(v) == HasSqrt(Dot(v, v))
Length(v) == Sqrt(Dot(v, v))

\* GLSL normalize(v) = v / length(v); u is the value of 0/0
Normalize(v, u) == LET len == Length(v) IN <<Div(v[1], len, u), Div(v[2], len, u)>>

(***************************************************************************)
(* render2.rs: the vertex stage.                                           *)
(***************************************************************************)
Vec4(v, z, w) == <<v[1], v[2], z, w>>
XY(v) == <<v[1], v[2]>>

\* VSHADER_SOURCE main(): every attribute of the Node2 is passed through
VShaderMain(v) ==
    [ginner_color    |-> v.inner_color,
     gfalloff_color  |-> v.falloff_color,
     gfalloff        |-> v.falloff,
     gfalloff_radius |-> v.falloff_radius,
     ginner_radius   |-> v.inner_radius,
     gl_Position     |-> Vec4(v.position, Zero, One)]

(***************************************************************************)
(* render2.rs: the node geometry stage.                                    *)
(***************************************************************************)
\* the literal 1.7320508075689, rounded up to four decimals: like the
\* literal it lies just above the square root of three
SQRT3 == <<17321, 10000>>

\* the triangle with its top corner at vec2(0, 1)
NodeCornerLowTop(k) ==
    CASE k = 1 -> <<Zero, One>>
      [] k = 2 -> <<Neg(SQRT3), Neg(One)>>
      [] k = 3 -> <<SQRT3, Neg(One)>>

\* the three directions of the node triangle, in emission order
NodeCorner(k) ==
    CASE k = 1 -> <<Zero, Two>>
      [] k = 2 -> <<Neg(SQRT3), Neg(One)>>
      [] k = 3 -> <<SQRT3, Neg(One)>>

\* the output variables written at the top of NODE_GSHADER_SOURCE main()
NodeVaryings(g) ==
    [finner_color    |-> g.ginner_color,
     ffalloff_color  |-> g.ginner_color,
     finner_radius   |-> g.ginner_radius,
     ffalloff        |-> g.gfalloff,
     ffalloff_radius |-> g.gfalloff_radius]

\* one EmitVertex(): the current values of all output variables
Emit(out, delta, position) ==
    [gl_Position     |-> Vec4(position, Zero, One),
     delta           |-> delta,
     finner_color    |-> out.finner_color,
     ffalloff_color  |-> out.ffalloff_color,
     finner_radius   |-> out.finner_radius,
     ffalloff_radius |-> out.ffalloff_radius,
     ffalloff        |-> out.ffalloff]

\* NODE_GSHADER_SOURCE main(): one strip of three vertices
NodeGShaderMain(gin) ==
    LET out         == NodeVaryings(gin[1])
        center      == XY(gin[1].gl_Position)
        full_radius == Add(out.finner_radius, out.ffalloff_radius)
        Vertex(k)   == LET delta == VScale(full_radius, NodeCorner(k))
                       IN  Emit(out, delta, VAdd(center, delta))
    IN  << <<Vertex(1), Vertex(2), Vertex(3)>> >>

(***************************************************************************)
(* render2.rs: the edge geometry stage.                                    *)
(***************************************************************************)
\* the output variables written before each vertex: those of endpoint i
EdgeVaryings(gin, i) ==
    [finner_color    |-> gin[i].ginner_color,
     ffalloff_color  |-> gin[i].gfalloff_color,
     finner_radius   |-> gin[i].ginner_radius,
     ffalloff_radius |-> gin[i].gfalloff_radius,
     ffalloff        |-> gin[i].gfalloff]

\* vec2(net_delta.y, -net_delta.x) and vec2(-net_delta.y, net_delta.x)
PerpA(nd) == <<nd[2], Neg(nd[1])>>
PerpB(nd) == <<Neg(nd[2]), nd[1]>>

\* a vertex emitted at base - delta, delta = radius * dir
EdgeVertexMinus(gin, i, dir, base) ==
    LET out    == EdgeVaryings(gin, i)
        radius == Add(out.finner_radius, out.ffalloff_radius)
        delta  == VScale(radius, dir)
    IN  Emit(out, delta, VSub(base, delta))

\* a vertex emitted at base + delta, delta = radius * dir
EdgeVertexPlus(gin, i, dir, base) ==
    LET out    == EdgeVaryings(gin, i)
        radius == Add(out.finner_radius, out.ffalloff_radius)
        delta  == VScale(radius, dir)
    IN  Emit(out, delta, VAdd(base, delta))

\* Face 0: the cap behind the first endpoint (vertices 0, 1, 2)
EdgeFace0(gin, nd, first, second) ==
    <<EdgeVertexMinus(gin, 1, PerpA(nd), first),
      EdgeVertexMinus(gin, 1, nd, first),
      EdgeVertexMinus(gin, 1, PerpB(nd), first)>>

\* Face 1: the first half of the strip (vertices 0, 2, 3)
EdgeFace1(gin, nd, first, second) ==
    <<EdgeVertexMinus(gin, 1, PerpA(nd), first),
      EdgeVertexMinus(gin, 1, PerpB(nd), first),
      EdgeVertexMinus(gin, 2, PerpA(nd), second)>>

\* Face 2: the second half of the strip (vertices 2, 4, 3)
EdgeFace2(gin, nd, first, second) ==
    <<EdgeVertexMinus(gin, 1, PerpB(nd), first),
      EdgeVertexMinus(gin, 2, PerpB(nd), second),
      EdgeVertexMinus(gin, 2, PerpA(nd), second)>>

\* Face 3 with vertex 5 placed at second - delta, as Face 0 does at first
EdgeFace3Behind(gin, nd, first, second) ==
    <<EdgeVertexMinus(gin, 2, nd, second),
      EdgeVertexMinus(gin, 2, PerpA(nd), second),
      EdgeVertexMinus(gin, 2, PerpB(nd), second)>>

\* Face 3: the cap beyond the second endpoint (vertices 5, 3, 4)
EdgeFace3(gin, nd, first, second) ==
    <<EdgeVertexPlus(gin, 2, nd, second),
      EdgeVertexMinus(gin, 2, PerpA(nd), second),
      EdgeVertexMinus(gin, 2, PerpB(nd), second)>>

\* net_delta = 2 * normalize(second - first); u is the value of 0/0
NetDelta(first, second, u) == VScale(Two, Normalize(VSub(second, first), u))
\* the direction is a rational vector of the model
HasNetDelta(first, second) == HasLength(VSub(second, first))

\* EDGE_GSHADER_SOURCE main(): four strips of three vertices
EdgeGShaderMain(gin, u) ==
    LET first     == XY(gin[1].gl_Position)
        second    == XY(gin[2].gl_Position)
        net_delta == NetDelta(first, second, u)
    IN  <<EdgeFace0(gin, net_delta, first, second),
          EdgeFace1(gin, net_delta, first, second),
          EdgeFace2(gin, net_delta, first, second),
          EdgeFace3(gin, net_delta, first, second)>>

(***************************************************************************)
(* Rasterization: the fragment stage's inputs are the emitting triangle's  *)
(* outputs, interpolated linearly (all vertices have w = 1).               *)
(***************************************************************************)
TriArea(t) == Cross(VSub(XY(t[2].gl_Position), XY(t[1].gl_Position)),
                    VSub(XY(t[3].gl_Position), XY(t[1].gl_Position)))

\* the edge function opposite vertex k
TriEdge(t, k, p) ==
    LET a == XY(t[(k % 3) + 1].gl_Position)
        b == XY(t[((k + 1) % 3) + 1].gl_Position)
    IN  Cross(VSub(a, p), VSub(b, p))

\* the barycentric weights of p in t
Weights(t, p) ==
    LET area == TriArea(t)
    IN  <<Div(TriEdge(t, 1, p), area, NaN), Div(TriEdge(t, 2, p), area, NaN),
          Div(TriEdge(t, 3, p), area, NaN)>>

\* p is a sample of triangle t: t has area and p is in it or on its border
Inside(w) == \A k \in 1..3 : Le(Zero, w[k])
Covers(t, p) ==
    /\ ~IsNaN(TriArea(t)) /\ TriArea(t) # Zero
    /\ Inside(Weights(t, p))

Lerp(w, a, b, c) == Add(Add(Mul(w[1], a), Mul(w[2], b)), Mul(w[3], c))
Lerp2(w, a, b, c) == <<Lerp(w, a[1], b[1], c[1]), Lerp(w, a[2], b[2], c[2])>>
Lerp4(w, a, b, c) == <<Lerp(w, a[1], b[1], c[1]), Lerp(w, a[2], b[2], c[2]),
                       Lerp(w, a[3], b[3], c[3]), Lerp(w, a[4], b[4], c[4])>>

\* the fragment of triangle t at barycentric weights w
FragmentAt(t, w) ==
    [delta           |-> Lerp2(w, t[1].delta, t[2].delta, t[3].delta),
     finner_color    |-> Lerp4(w, t[1].finner_color, t[2].finner_color,
                                    t[3].finner_color),
     ffalloff_color  |-> Lerp4(w, t[1].ffalloff_color, t[2].ffalloff_color,
                                    t[3].ffalloff_color),
     finner_radius   |-> Lerp(w, t[1].finner_radius, t[2].finner_radius,
                              t[3].finner_radius),
     ffalloff_radius |-> Lerp(w, t[1].ffalloff_radius, t[2].ffalloff_radius,
                              t[3].ffalloff_radius),
     ffalloff        |-> Lerp(w, t[1].ffalloff, t[2].ffalloff, t[3].ffalloff)]
Fragment(t, p) == FragmentAt(t, Weights(t, p))

(***************************************************************************)
(* render2.rs: the fragment stage.                                         *)
(***************************************************************************)
\* the inner branch: finner_color * (1.0 - travel) + ffalloff_color * travel
InnerColor(f, travel) ==
    V4Add(V4Scale(Sub(One, travel), f.finner_color), V4Scale(travel, f.ffalloff_color))

\* the outer branch without max(0.0, ..)
OuterColorUnclamped(f, length, u1, u2) ==
    LET x == Div(Sub(length, f.finner_radius), f.ffalloff_radius, u1)
    IN  <<f.ffalloff_color[1], f.ffalloff_color[2], f.ffalloff_color[3],
          Mul(f.ffalloff_color[4], Sub(One, Pow(x, f.ffalloff, u2)))>>

\* the outer branch at the given length; u1, u2 are the values of 0/0 and
\* of pow outside its domain
OuterColor(f, length, u1, u2) ==
    LET x == Div(Sub(length, f.finner_radius), f.ffalloff_radius, u1)
    IN  <<f.ffalloff_color[1], f.ffalloff_color[2], f.ffalloff_color[3],
          Mul(f.ffalloff_color[4], Max(Zero, Sub(One, Pow(x, f.ffalloff, u2))))>>

\* FSHADER_SOURCE main(): the branch taken, travel, and the output color
FShaderMain(f, u1, u2) ==
    LET length == Length(f.delta)
    IN  IF Le(length, f.finner_radius)
        THEN LET travel == Div(length, f.finner_radius, u1)
             IN  [branch |-> "inner", divisor |-> f.finner_radius,
                  color |-> InnerColor(f, travel)]
        ELSE [branch |-> "outer", divisor |-> f.ffalloff_radius,
              color |-> OuterColor(f, length, u1, u2)]

\* main() evaluates 0/0 at f
DividesZeroByZero(f) ==
    LET length == Length(f.delta)
    IN  IF Le(length, f.finner_radius)
        THEN f.finner_radius = Zero /\ length = Zero
        ELSE f.ffalloff_radius = Zero /\ Sub(length, f.finner_radius) = Zero

\* main() calls pow outside its domain at f
PowUndefined(f, u1) ==
    /\ ~Le(Length(f.delta), f.finner_radius)
    /\ LET x == Div(Sub(Length(f.delta), f.finner_radius), f.ffalloff_radius, u1)
       IN  Lt(x, Zero) \/ (x = Zero /\ Le(f.ffalloff, Zero))

\* every value main() computes at f is a rational of the model
HasFShader(f) ==
    /\ HasLength(f.delta)
    /\ LET length == Length(f.delta)
       IN  \/ Le(length, f.finner_radius)
           \/ f.ffalloff_radius = Zero
           \/ HasPow(Div(Sub(length, f.finner_radius), f.ffalloff_radius, NaN),
                     f.ffalloff)

(***************************************************************************)
(* Renderer (render2/mod.rs) and Renderer2 (render2.rs): construction.     *)
(***************************************************************************)
\* glium::Program::from_source(display, vs, fs, Some(gs)): Ok or Err
FromSource(vs, fs, gs, ok) == [ok |-> ok, vs |-> vs, fs |-> fs, gs |-> gs]

\* a Result whose error is ignored
UnwrapNeverPanics(result) == FALSE

\* Result::unwrap() panics on Err
UnwrapPanics(result) == ~result.ok

\* Renderer::new; oks[i] tells whether the i-th program compiles and links.
\* <<>> when an unwrap() panicked, else the Renderer.
RendererNew(oks) ==
    LET node  == FromSource("linear::VSHADER_SOURCE", "linear::FSHADER_SOURCE",
                            "linear::NODE_GSHADER_SOURCE", oks[1])
        edge  == FromSource("linear::VSHADER_SOURCE", "linear::FSHADER_SOURCE",
                            "linear::EDGE_GSHADER_SOURCE", oks[2])
        round == FromSource("qbezier::VSHADER_SOURCE", "qbezier::FSHADER_SOURCE",
                            "qbezier::GSHADER_SOURCE_ROUND", oks[3])
        flat  == FromSource("qbezier::VSHADER_SOURCE", "qbezier::FSHADER_SOURCE",
                            "qbezier::GSHADER_SOURCE_FLAT", oks[4])
    IN  IF \/ UnwrapPanics(node) \/ UnwrapPanics(edge)
           \/ UnwrapPanics(round) \/ UnwrapPanics(flat)
        THEN <<>>
        ELSE <<[type                  |-> "Renderer",
                node_program          |-> node,
                edge_program          |-> edge,
                round_qbezier_program |-> round,
                flat_qbezier_program  |-> flat,
                params                |-> "alpha_blending"]>>

\* Renderer2::new
Renderer2New(oks) ==
    LET node == FromSource("VSHADER_SOURCE", "FSHADER_SOURCE",
                           "NODE_GSHADER_SOURCE", oks[1])
        edge == FromSource("VSHADER_SOURCE", "FSHADER_SOURCE",
                           "EDGE_GSHADER_SOURCE", oks[2])
    IN  IF UnwrapPanics(node) \/ UnwrapPanics(edge)
        THEN <<>>
        ELSE <<[type         |-> "Renderer2",
                node_program |-> node,
                edge_program |-> edge,
                params       |-> "alpha_blending"]>>

(***************************************************************************)
(* The draw each render function issues, given the uploaded vertex buffer. *)
(***************************************************************************)
DrawCall(vertex_buffer, indices, program, hscale, params) ==
    [vertex_buffer |-> vertex_buffer, indices |-> indices, program |-> program,
     uniforms |-> hscale, params |-> params]

RenderNodesDraw(self, vertex_buffer) ==
    DrawCall(vertex_buffer, "Points", self.node_program, <<One>>, self.params)
RenderNodesHscaleDraw(self, hscale, vertex_buffer) ==
    DrawCall(vertex_buffer, "Points", self.node_program, <<hscale>>, self.params)
RenderEdgesDraw(self, vertex_buffer) ==
    DrawCall(vertex_buffer, "LinesList", self.edge_program, <<One>>, self.params)
RenderEdgesHscaleDraw(self, hscale, vertex_buffer) ==
    DrawCall(vertex_buffer, "LinesList", self.edge_program, <<hscale>>, self.params)
RenderQBeziersDraw(self, vertex_buffer) ==
    DrawCall(vertex_buffer, "Points", self.round_qbezier_program, <<One>>, self.params)
RenderQBeziersHscaleDraw(self, hscale, vertex_buffer) ==
    DrawCall(vertex_buffer, "Points", self.round_qbezier_program, <<hscale>>,
             self.params)
\* the flat call drawing with the round-cap program
RenderFlatQBeziersDrawRound(self, vertex_buffer) ==
    DrawCall(vertex_buffer, "Points", self.round_qbezier_program, <<One>>, self.params)
RenderFlatQBeziersDraw(self, vertex_buffer) ==
    DrawCall(vertex_buffer, "Points", self.flat_qbezier_program, <<One>>, self.params)
RenderFlatQBeziersHscaleDraw(self, hscale, vertex_buffer) ==
    DrawCall(vertex_buffer, "Points", self.flat_qbezier_program, <<hscale>>,
             self.params)

\* Renderer2's draws take EmptyUniforms
Render2NodesDraw(self, vertex_buffer) ==
    DrawCall(vertex_buffer, "Points", self.node_program, <<>>, self.params)
Render2EdgesDraw(self, vertex_buffer) ==
    DrawCall(vertex_buffer, "LinesList", self.edge_program, <<>>, self.params)

(***************************************************************************)
(* Inputs.                                                                 *)
(***************************************************************************)
FalloffRadii == {R(n) : n \in 0..MaxRadius}
InnerRadii == {Zero, One}
Falloffs == {One, Two}
Red == <<One, Zero, Zero, One>>
Blue == <<Zero, Zero, One, <<1, 2>> >>
Clear == <<Zero, Zero, Zero, Zero>>

Node2(position, inner_color, falloff, falloff_color, falloff_radius, inner_radius) ==
    [position |-> position, inner_color |-> inner_color, falloff |-> falloff,
     falloff_color |-> falloff_color, falloff_radius |-> falloff_radius,
     inner_radius |-> inner_radius]

\* the nodes drawn by Renderer2::render_nodes
NodePositions == {Vec2(0, 0), Vec2(1, -1)}
Palettes == {<<Red, Blue>>, <<Blue, Clear>>, <<Red, Red>>}
Nodes == {Node2(p, c[1], f, c[2], fr, ir) :
            p \in NodePositions, c \in Palettes, f \in Falloffs,
            fr \in FalloffRadii, ir \in InnerRadii}

\* the endpoint pairs drawn by Renderer2::render_edges; the second position
\* may coincide with the first
FirstPositions == {Vec2(0, 0)}
SecondPositions == {Vec2(0, 0), Vec2(1, 0), Vec2(2, 0), Vec2(3, 4)}
EdgeEnds(positions, palettes, falloffs) ==
    {Node2(p, c[1], f, c[2], fr, ir) :
        p \in positions, c \in palettes, f \in falloffs,
        fr \in FalloffRadii, ir \in InnerRadii}
Edges == {<<a, b>> : a \in EdgeEnds(FirstPositions, {<<Red, Blue>>}, {One}),
                     b \in EdgeEnds(SecondPositions, {<<Red, Blue>>, <<Blue, Clear>>},
                                    {Two})}

\* the batches handed to Renderer's render functions (their shaders, in
\* linear and qbezier, only see them on the GPU)
Batches == {<<>>, <<"primitive">>}
HScales == {One, Two}

\* VertexBuffer::new(..).unwrap() and target.draw(..).unwrap()
Outcomes == {"ok", "upload_failed", "draw_failed"}

\* the window positions at which fragments are generated
SamplePoints == {Vec2(i, j) : i \in -2..3, j \in -2..2}

(***************************************************************************)
(* The state machine.                                                      *)
(***************************************************************************)
Init ==
    /\ rpc = "start"
    /\ renderer = <<>>
    /\ calls = <<>>
    /\ draws = <<>>
    /\ stage = "idle"
    /\ vsout = <<>>
    /\ prims = <<>>
    /\ frag = <<>>
    /\ fsout = <<>>

gpu == <<stage, vsout, prims, frag, fsout>>

Construct(r) ==
    /\ rpc = "start"
    /\ renderer' = r
    /\ rpc' = IF r = <<>> THEN "panicked" ELSE "built"
    /\ UNCHANGED <<calls, draws, gpu>>

New == \E oks \in [1..4 -> BOOLEAN] : Construct(RendererNew(oks))
New2 == \E oks \in [1..2 -> BOOLEAN] : Construct(Renderer2New(oks))

\* a render function of Renderer: upload, then one draw; either may panic
Render(name, batch, draw, outcome) ==
    /\ rpc = "built"
    /\ renderer[1].type = "Renderer"
    /\ Len(calls) < MaxCalls
    /\ IF outcome = "ok"
       THEN /\ draws' = Append(draws, draw)
            /\ calls' = Append(calls, [name |-> name, batch |-> batch])
            /\ rpc' = rpc
       ELSE /\ rpc' = "panicked"
            /\ UNCHANGED <<draws, calls>>
    /\ UNCHANGED <<renderer, gpu>>

RenderNodes ==
    \E nodes \in Batches, o \in Outcomes :
        Render("render_nodes", nodes, RenderNodesDraw(renderer[1], nodes), o)
RenderNodesHscale ==
    \E hscale \in HScales, nodes \in Batches, o \in Outcomes :
        Render("render_nodes_hscale", nodes,
               RenderNodesHscaleDraw(renderer[1], hscale, nodes), o)
RenderEdges ==
    \E edges \in Batches, o \in Outcomes :
        Render("render_edges", edges, RenderEdgesDraw(renderer[1], edges), o)
RenderEdgesHscale ==
    \E hscale \in HScales, edges \in Batches, o \in Outcomes :
        Render("render_edges_hscale", edges,
               RenderEdgesHscaleDraw(renderer[1], hscale, edges), o)
RenderQBeziers ==
    \E qbeziers \in Batches, o \in Outcomes :
        Render("render_qbeziers", qbeziers,
               RenderQBeziersDraw(renderer[1], qbeziers), o)
RenderQBeziersHscale ==
    \E hscale \in HScales, qbeziers \in Batches, o \in Outcomes :
        Render("render_qbeziers_hscale", qbeziers,
               RenderQBeziersHscaleDraw(renderer[1], hscale, qbeziers), o)
RenderFlatQBeziers ==
    \E qbeziers \in Batches, o \in Outcomes :
        Render("render_flat_qbeziers", qbeziers,
               RenderFlatQBeziersDraw(renderer[1], qbeziers), o)
RenderFlatQBeziersHscale ==
    \E hscale \in HScales, qbeziers \in Batches, o \in Outcomes :
        Render("render_flat_qbeziers_hscale", qbeziers,
               RenderFlatQBeziersHscaleDraw(renderer[1], hscale, qbeziers), o)

\* a render function of Renderer2; its one draw runs the pipeline below
Render2(name, batch, draw, outcome) ==
    /\ rpc = "built"
    /\ renderer[1].type = "Renderer2"
    /\ stage = "idle"
    /\ IF outcome = "ok"
       THEN /\ draws' = Append(draws, draw)
            /\ calls' = Append(calls, [name |-> name, batch |-> batch])
            /\ stage' = "vs"
            /\ rpc' = rpc
       ELSE /\ rpc' = "panicked"
            /\ UNCHANGED <<draws, calls, stage>>
    /\ UNCHANGED <<renderer, vsout, prims, frag, fsout>>

Render2Nodes ==
    \E n \in Nodes, o \in Outcomes :
        Render2("render_nodes", <<n>>, Render2NodesDraw(renderer[1], <<n>>), o)
Render2Edges ==
    \E e \in Edges, o \in Outcomes :
        Render2("render_edges", e, Render2EdgesDraw(renderer[1], e), o)

\* the draw the pipeline is running
Bound == draws[Len(draws)]

VertexStage ==
    /\ stage = "vs"
    /\ vsout' = [i \in DOMAIN Bound.vertex_buffer |-> VShaderMain(Bound.vertex_buffer[i])]
    /\ stage' = "gs"
    /\ UNCHANGED <<rpc, renderer, calls, draws, prims, frag, fsout>>

NodeGeometryStage ==
    /\ stage = "gs"
    /\ Bound.program.gs = "NODE_GSHADER_SOURCE"
    /\ prims' = NodeGShaderMain(vsout)
    /\ stage' = "raster"
    /\ UNCHANGED <<rpc, renderer, calls, draws, vsout, frag, fsout>>

EdgeGeometryStage ==
    /\ stage = "gs"
    /\ Bound.program.gs = "EDGE_GSHADER_SOURCE"
    /\ \E u \in Unspecified :
          \* u only matters to normalize(0): take one value otherwise
          /\ XY(vsout[1].gl_Position) # XY(vsout[2].gl_Position) => u = NaN
          /\ prims' = EdgeGShaderMain(vsout, u)
    /\ stage' = "raster"
    /\ UNCHANGED <<rpc, renderer, calls, draws, vsout, frag, fsout>>

Rasterize ==
    /\ stage = "raster"
    /\ \E k \in DOMAIN prims, p \in SamplePoints :
          LET area == TriArea(prims[k])
              w    == Weights(prims[k], p)
          IN  /\ ~IsNaN(area) /\ area # Zero
              /\ Inside(w)
              /\ frag' = <<[face |-> k, p |-> p, in |-> FragmentAt(prims[k], w)]>>
    /\ stage' = "fs"
    /\ UNCHANGED <<rpc, renderer, calls, draws, vsout, prims, fsout>>

FragmentStage ==
    /\ stage = "fs"
    /\ HasFShader(frag[1].in)
    /\ \E u1 \in Unspecified, u2 \in Unspecified :
          \* u1, u2 only matter where main() leaves the domain of / or pow:
          \* take one value otherwise
          /\ ~DividesZeroByZero(frag[1].in) => u1 = NaN
          /\ ~PowUndefined(frag[1].in, u1) => u2 = NaN
          /\ fsout' = <<FShaderMain(frag[1].in, u1, u2)>>
    /\ stage' = "done"
    /\ UNCHANGED <<rpc, renderer, calls, draws, vsout, prims, frag>>

Next ==
    \/ New
    \/ New2
    \/ RenderNodes
    \/ RenderNodesHscale
    \/ RenderEdges
    \/ RenderEdgesHscale
    \/ RenderQBeziers
    \/ RenderQBeziersHscale
    \/ RenderFlatQBeziers
    \/ RenderFlatQBeziersHscale
    \/ Render2Nodes
    \/ Render2Edges
    \/ VertexStage
    \/ NodeGeometryStage
    \/ EdgeGeometryStage
    \/ Rasterize
    \/ FragmentStage

Spec == Init /\ [][Next]_vars

(***************************************************************************)
(* Vocabulary of the properties.                                           *)
(***************************************************************************)
PastGeometry == stage \in {"raster", "fs", "done"}
NodeDrawn == PastGeometry /\ Bound.program.gs = "NODE_GSHADER_SOURCE"
EdgeDrawn == PastGeometry /\ Bound.program.gs = "EDGE_GSHADER_SOURCE"
Shaded == stage = "done"

\* the record(s) of the draw, and the fragment stage's inputs and output
Drawn(i) == Bound.vertex_buffer[i]
FullRadius(n) == Add(n.inner_radius, n.falloff_radius)
FragIn == frag[1].in
FragLength == Length(FragIn.delta)
Color == fsout[1].color
RGB(c) == <<c[1], c[2], c[3]>>
AllFinite(v) == \A i \in 1..Len(v) : IsFinite(v[i])

\* q is in triangle t or on its border (a triangle without area is the
\* segment or point its vertices span)
InClosedTriangle(t, q) ==
    LET e1 == TriEdge(t, 1, q)
        e2 == TriEdge(t, 2, q)
        e3 == TriEdge(t, 3, q)
        xs == {t[k].gl_Position[1] : k \in 1..3}
        ys == {t[k].gl_Position[2] : k \in 1..3}
    IN  /\ \/ Le(Zero, e1) /\ Le(Zero, e2) /\ Le(Zero, e3)
           \/ Le(e1, Zero) /\ Le(e2, Zero) /\ Le(e3, Zero)
        /\ TriArea(t) = Zero =>
              /\ \E x \in xs : Le(x, q[1])
              /\ \E x \in xs : Le(q[1], x)
              /\ \E y \in ys : Le(y, q[2])
              /\ \E y \in ys : Le(q[2], y)

\* q is in the interior of triangle t
InOpenTriangle(t, q) ==
    LET e1 == TriEdge(t, 1, q)
        e2 == TriEdge(t, 2, q)
        e3 == TriEdge(t, 3, q)
    IN  \/ Lt(Zero, e1) /\ Lt(Zero, e2) /\ Lt(Zero, e3)
        \/ Lt(e1, Zero) /\ Lt(e2, Zero) /\ Lt(e3, Zero)

\* rational points of the unit circle
UnitPoints ==
    LET P == {<<1, 0, 1>>, <<3, 4, 5>>, <<5, 12, 13>>, <<8, 15, 17>>}
    IN  UNION {{<<Norm(sx * t[1], t[3]), Norm(sy * t[2], t[3])>>,
                <<Norm(sx * t[2], t[3]), Norm(sy * t[1], t[3])>>} :
               t \in P, sx \in {-1, 1}, sy \in {-1, 1}}

\* points of the circle of radius r around c
CirclePoints(c, r) == {VAdd(c, VScale(r, d)) : d \in UnitPoints}

(***************************************************************************)
(* C1.  Node expansion: each of the three vertices emitted for a Node      *)
(* carries the Node's inner_color, falloff_color, inner_radius,            *)
(* falloff_radius and falloff unchanged.                                   *)
(***************************************************************************)
C1_NodeAttributesUnchanged ==
    NodeDrawn =>
        \A k \in 1..3 :
            /\ prims[1][k].finner_color = Drawn(1).inner_color
            /\ prims[1][k].ffalloff_color = Drawn(1).falloff_color
            /\ prims[1][k].finner_radius = Drawn(1).inner_radius
            /\ prims[1][k].ffalloff_radius = Drawn(1).falloff_radius
            /\ prims[1][k].ffalloff = Drawn(1).falloff

(***************************************************************************)
(* C2.  Boundary continuity: for all non-negative radii, inner_radius = 0  *)
(* included, shading at length = inner_radius yields exactly falloff_color,*)
(* and so does the outer-branch formula at zero elapsed outer distance.    *)
(***************************************************************************)
C2_BoundaryYieldsFalloffColor ==
    (Shaded /\ FragLength = FragIn.finner_radius) =>
        /\ Color = FragIn.ffalloff_color
        /\ \A u1 \in Unspecified, u2 \in Unspecified :
              OuterColor(FragIn, FragIn.finner_radius, u1, u2) = FragIn.ffalloff_color

(***************************************************************************)
(* C3.  Falloff: beyond inner_radius the output alpha does not increase    *)
(* with length, is 0 from length = inner_radius + falloff_radius on and    *)
(* never negative, and the output RGB is falloff_color's RGB.              *)
(***************************************************************************)
\* the lengths the alpha at the shaded fragment is compared with
TestLengths == {<<n, 2>> : n \in 0..10} \cup {R(n) : n \in 0..5}

\* the outer branch's alpha at length l, where pow is a value of the model
OuterAlphaAt(l) == OuterColor(FragIn, l, NaN, NaN)[4]
Comparable(l) ==
    /\ Lt(FragIn.finner_radius, l)
    /\ HasPow(Div(Sub(l, FragIn.finner_radius), FragIn.ffalloff_radius, NaN),
              FragIn.ffalloff)

\* alpha does not increase with length around the shaded fragment
AlphaMonotoneHere ==
    \A l \in TestLengths :
        Comparable(l) =>
            /\ Le(FragLength, l) => Le(OuterAlphaAt(l), Color[4])
            /\ Le(l, FragLength) => Le(Color[4], OuterAlphaAt(l))

NodeCircle == CirclePoints(Drawn(1).position, FullRadius(Drawn(1)))

\* the claim as made: every point of the circle is in the triangle's interior
C4_StrictlyContainsCircle ==
    NodeDrawn => \A q \in NodeCircle : InOpenTriangle(prims[1], q)

\* C4 as amended: every point of the circle is in the triangle or on its border
C4_ContainsCircle ==
    NodeDrawn => \A q \in NodeCircle : InClosedTriangle(prims[1], q)

\* a node of positive radius whose circle touches the triangle's bottom side
C4_Witness ==
    /\ NodeDrawn
    /\ Lt(Zero, FullRadius(Drawn(1)))
    /\ LET q == VAdd(Drawn(1).position, <<Zero, Neg(FullRadius(Drawn(1)))>>)
       IN  /\ q \in NodeCircle
           /\ TriEdge(prims[1], 1, q) = Zero
           /\ InClosedTriangle(prims[1], q)

(***************************************************************************)
(* C5.  Round-cap edge coverage: for distinct endpoints and any per-       *)
(* endpoint full radii, the four emitted triangles together contain the    *)
(* disc of each endpoint's full radius around that endpoint, and the strip *)
(* between the endpoints.                                                  *)
(***************************************************************************)
EdgeFirst == Drawn(1).position
EdgeSecond == Drawn(2).position
DistinctEnds == EdgeFirst # EdgeSecond

DistSq(a, b) == Dot(VSub(a, b), VSub(a, b))
Square(x) == Mul(x, x)

\* how far along the segment q projects: 0 at first, 1 at second
Along(q) == Div(Dot(VSub(q, EdgeFirst), VSub(EdgeSecond, EdgeFirst)),
                DistSq(EdgeSecond, EdgeFirst), NaN)

\* squared distance from q to the segment's line
PerpDistSq(q) ==
    Sub(DistSq(q, EdgeFirst), Mul(Square(Along(q)), DistSq(EdgeSecond, EdgeFirst)))

\* squared distance from q to the segment
SegmentDistSq(q) ==
    IF Lt(Along(q), Zero) THEN DistSq(q, EdgeFirst)
    ELSE IF Lt(One, Along(q)) THEN DistSq(q, EdgeSecond)
    ELSE PerpDistSq(q)

\* q is in the disc of endpoint i's full radius
InDisc(q, i) == Le(DistSq(q, Drawn(i).position), Square(FullRadius(Drawn(i))))

\* q is between the endpoints, within the full radius interpolated there
InStrip(q) ==
    /\ Le(Zero, Along(q)) /\ Le(Along(q), One)
    /\ Le(PerpDistSq(q),
          Square(Add(Mul(Sub(One, Along(q)), FullRadius(Drawn(1))),
                     Mul(Along(q), FullRadius(Drawn(2))))))

\* the points coverage is tested at
CoveragePoints == {<<Norm(i, 2), Norm(j, 2)>> : i \in -4..8, j \in -4..8}

C5_RoundCapCoverage ==
    (stage = "raster" /\ EdgeDrawn /\ DistinctEnds) =>
        \A q \in CoveragePoints :
            (InDisc(q, 1) \/ InDisc(q, 2) \/ InStrip(q)) =>
                \E k \in 1..4 : InClosedTriangle(prims[k], q)

(***************************************************************************)
(* C6.  Zero-length edge: when both endpoints have the same position, the  *)
(* emitted positions and deltas are defined and finite, never NaN.         *)
(***************************************************************************)
C6_ZeroLengthEdgeWellDefined ==
    (EdgeDrawn /\ ~DistinctEnds) =>
        \A k \in 1..4, i \in 1..3 :
            AllFinite(prims[k][i].gl_Position) /\ AllFinite(prims[k][i].delta)

(***************************************************************************)
(* C7.  inner_radius = 0: length / inner_radius is never evaluated with a  *)
(* zero denominator; the outer formula is used at every length, and with   *)
(* falloff_radius = 0 as well the result is defined and fully transparent. *)
(***************************************************************************)
C7_InnerRadiusZeroGuarded ==
    Shaded =>
        /\ fsout[1].branch = "inner" => fsout[1].divisor # Zero
        /\ FragIn.finner_radius = Zero =>
              /\ fsout[1].branch = "outer"
              /\ AllFinite(Color)
              /\ FragIn.ffalloff_radius = Zero => Color[4] = Zero

(***************************************************************************)
(* C8.  Construction is all-or-nothing: a Renderer (or Renderer2) that     *)
(* exists holds every one of its programs successfully compiled; when any  *)
(* program fails to compile, construction panics and no renderer exists.   *)
(***************************************************************************)
Programs(r) ==
    IF r.type = "Renderer"
    THEN {r.node_program, r.edge_program,
          r.round_qbezier_program, r.flat_qbezier_program}
    ELSE {r.node_program, r.edge_program}

C8_ConstructionAllOrNothing ==
    /\ renderer # <<>> => \A program \in Programs(renderer[1]) : program.ok
    /\ rpc = "built" => renderer # <<>>
    /\ rpc = "start" => renderer = <<>>

\* a construction that panicked: no renderer, and nothing was drawn
C8_Witness == rpc = "panicked" /\ renderer = <<>> /\ draws = <<>>

(***************************************************************************)
(* C9.  Draw dispatch: every successful render call of a Renderer uploaded *)
(* its batch and issued exactly one draw, with the program of the call's   *)
(* own primitive kind and cap style, whatever the earlier calls were; the  *)
(* programs the Renderer holds stay as compiled.                           *)
(***************************************************************************)
ExpectedGShader(name) ==
    CASE name \in {"render_nodes", "render_nodes_hscale"} ->
             "linear::NODE_GSHADER_SOURCE"
      [] name \in {"render_edges", "render_edges_hscale"} ->
             "linear::EDGE_GSHADER_SOURCE"
      [] name \in {"render_qbeziers", "render_qbeziers_hscale"} ->
             "qbezier::GSHADER_SOURCE_ROUND"
      [] name \in {"render_flat_qbeziers", "render_flat_qbeziers_hscale"} ->
             "qbezier::GSHADER_SOURCE_FLAT"

IsRenderer == renderer # <<>> /\ renderer[1].type = "Renderer"

C9_DrawDispatch ==
    IsRenderer =>
        /\ Len(draws) = Len(calls)
        /\ \A i \in 1..Len(calls) :
              /\ draws[i].vertex_buffer = calls[i].batch
              /\ draws[i].program.gs = ExpectedGShader(calls[i].name)
              /\ draws[i].program.ok
        /\ renderer[1].node_program.gs = "linear::NODE_GSHADER_SOURCE"
        /\ renderer[1].edge_program.gs = "linear::EDGE_GSHADER_SOURCE"
        /\ renderer[1].round_qbezier_program.gs = "qbezier::GSHADER_SOURCE_ROUND"
        /\ renderer[1].flat_qbezier_program.gs = "qbezier::GSHADER_SOURCE_FLAT"

\* a flat-cap call right after a round-cap call
C9_Witness ==
    /\ IsRenderer
    /\ Len(calls) = 2 /\ Len(draws) = 2
    /\ calls[1].name = "render_qbeziers"
    /\ calls[2].name = "render_flat_qbeziers"

(***************************************************************************)
(* C10.  Edge delta is spine-relative: at every sampled point of a         *)
(* triangle emitted for an edge with distinct endpoints, the length of the *)
(* interpolated delta is the distance from the point to the segment: the   *)
(* distance to the endpoint in a cap, the perpendicular distance to the    *)
(* segment's line in the strip.  (Lengths are compared by their squares.)  *)
(***************************************************************************)
Rasterized == stage \in {"fs", "done"}
FragDeltaSq == Dot(FragIn.delta, FragIn.delta)

C10_EdgeDeltaSpineRelative ==
    (Rasterized /\ EdgeDrawn /\ DistinctEnds) =>
        /\ FragDeltaSq = SegmentDistSq(frag[1].p)
        /\ frag[1].face = 1 => FragDeltaSq = DistSq(frag[1].p, EdgeFirst)
        /\ frag[1].face \in {2, 3} => FragDeltaSq = PerpDistSq(frag[1].p)
        /\ frag[1].face = 4 => FragDeltaSq = DistSq(frag[1].p, EdgeSecond)

\* a point of the far cap, off the endpoint, with unequal radii
C10_Witness ==
    /\ Rasterized /\ EdgeDrawn /\ DistinctEnds
    /\ frag[1].face = 4
    /\ FragDeltaSq # Zero
    /\ FullRadius(Drawn(1)) # FullRadius(Drawn(2))

(***************************************************************************)
(* C11.  Edge parameters interpolate linearly along the segment axis: at   *)
(* a point of either strip triangle whose projection is the fraction s of  *)
(* the way from the first endpoint to the second, every parameter the      *)
(* fragment stage sees is (1-s) * the first's value + s * the second's;    *)
(* and for endpoints sharing inner_radius r, the color shaded at the       *)
(* midpoint, at perpendicular distance r, is the 50/50 blend of the two    *)
(* falloff colors.                                                         *)
(***************************************************************************)
Mix(s, a, b) == Add(Mul(Sub(One, s), a), Mul(s, b))
Mix4(s, a, b) == <<Mix(s, a[1], b[1]), Mix(s, a[2], b[2]),
                   Mix(s, a[3], b[3]), Mix(s, a[4], b[4])>>
Half == Norm(1, 2)

InStripFace == Rasterized /\ EdgeDrawn /\ DistinctEnds /\ frag[1].face \in {2, 3}

\* the fragment's parameters are the endpoints' values mixed at s
LinearAlongAxis ==
    LET s == Along(frag[1].p)
        A == Drawn(1)
        B == Drawn(2)
    IN  /\ Le(Zero, s) /\ Le(s, One)
        /\ FragIn.finner_color = Mix4(s, A.inner_color, B.inner_color)
        /\ FragIn.ffalloff_color = Mix4(s, A.falloff_color, B.falloff_color)
        /\ FragIn.finner_radius = Mix(s, A.inner_radius, B.inner_radius)
        /\ FragIn.ffalloff_radius = Mix(s, A.falloff_radius, B.falloff_radius)
        /\ FragIn.ffalloff = Mix(s, A.falloff, B.falloff)

\* the fragment is at the midpoint, at perpendicular distance inner_radius
AtMidpointBoundary ==
    /\ Drawn(1).inner_radius = Drawn(2).inner_radius
    /\ Along(frag[1].p) = Half
    /\ PerpDistSq(frag[1].p) = Square(Drawn(1).inner_radius)

MidpointBlend == Color = Mix4(Half, Drawn(1).falloff_color, Drawn(2).falloff_color)

C11_EdgeParametersInterpolate ==
    InStripFace =>
        /\ LinearAlongAxis
        /\ (Shaded /\ AtMidpointBoundary) => MidpointBlend

=============================================================================
